---- MODULE Spec2Model ----
(* A model of workers.cpp: one producer (run_test, called from main once   *)
(* per strategy) and NUM_THREADS consumer threads that drain one shared    *)
(* bounded queue under one of three wake-up disciplines (SemWorker,        *)
(* BusyWorker, LoopWorker).                                                *)
(*                                                                         *)
(* Every access to shared state (the queue, a pending flag, a semaphore, a *)
(* wake handle, stdout) is one action; thread-local work that follows it   *)
(* (the sentinel test, record()) belongs to the same action.               *)
EXTENDS Integers, Sequences, FiniteSets, TLC

(***************************************************************************)
(* Sizes.  The program fixes them at build time (NUM_THREADS 4,            *)
(* NUM_ITERATIONS 10000000, a queue of 8 * 1024 * 1024 slots); the model   *)
(* runs the same code on small instances and lets the iteration count and  *)
(* the queue capacity range over every value up to a bound.                *)
(***************************************************************************)
NUM_THREADS == 2

MaxIterations == 2

MaxCapacity == 2

Workers == 0 .. (NUM_THREADS - 1)

\* (uint64_t)-1, the token that tells a consumer to stop.
SENTINEL == -1

\* The three test functions main() shuffles.
TestFuncs == {"sema", "busy", "loop"}

(***************************************************************************)
(* Decimal numbers beyond 32 bits: a value m * 10^e is kept as the record  *)
(* [m |-> m, e |-> e] with m not divisible by ten.                         *)
(***************************************************************************)
RECURSIVE Dec(_)
Dec(n) == IF n # 0 /\ n % 10 = 0
          THEN [m |-> Dec(n \div 10).m, e |-> Dec(n \div 10).e + 1]
          ELSE [m |-> n, e |-> 0]

Mul(a, b) == [m |-> Dec(a.m * b.m).m, e |-> a.e + b.e + Dec(a.m * b.m).e]

\* #define HIGHEST_TRACKABLE_VALUE 3600LL * 1000LL * 1000LL
HIGHEST_TRACKABLE_VALUE == Mul(Mul(Dec(3600), Dec(1000)), Dec(1000))

\* hdr_init(1LL, HIGHEST_TRACKABLE_VALUE, 3, &histogram) in BaseWorker().
BaseWorker ==
    [lowest |-> Dec(1), highest |-> HIGHEST_TRACKABLE_VALUE, digits |-> 3,
     values |-> << >>]

VARIABLES
    tests,          \* main: the shuffled array of test functions
    func,           \* main: position in tests (4 = the NULL terminator)
    pc,             \* where the main thread is
    i,              \* run_test: the loop counter of the current loop
    index,          \* run_test: size_t index
    target,         \* run_test: the worker whose send() is running
    queue,          \* the shared MPMCQueue, oldest token first
    iterations,     \* NUM_ITERATIONS of this build
    capacity,       \* number of slots of queue in this build
    inited,         \* per worker: what init() returned ("none": not called)
    init_failed,    \* some init() of this process returned non-zero
    wpc,            \* per worker: where its thread is
    done,           \* per worker: the local variable done
    sem,            \* SemWorker::sem, the semaphore's count
    pending,        \* SemWorker::pending
    calls,          \* per worker: send() calls since pending was last cleared
    posts,          \* per worker: uv_sem_post calls since pending was last cleared
    async_pending,  \* LoopWorker::async, its pending wake-up
    handle,         \* LoopWorker::async, "active" / "closed"
    histogram,      \* per worker: BaseWorker::histogram
    dequeued,       \* per worker: every value its dequeue calls returned
    dumps,          \* per worker: completed calls of dump()
    out,            \* lines written to stdout
    produced,       \* tokens enqueued by the current run_test, in order
    sends           \* targets of the send() calls of the current run_test

vars == <<tests, func, pc, i, index, target, queue, iterations, capacity,
          inited, init_failed, wpc, done, sem, pending, calls, posts,
          async_pending, handle, histogram, dequeued, dumps, out, produced,
          sends>>

config  == <<tests, iterations, capacity>>
driver  == <<func, pc, i, index, target>>
semvars == <<sem, pending, calls, posts>>
loopvars == <<async_pending, handle>>
wstate  == <<wpc, done, histogram, dequeued, dumps>>
history == <<produced, sends>>

\* The test function *func that main is running ("NULL" past the last one).
Strategy == IF func <= 3 THEN tests[func] ELSE "NULL"

\* The process is running: no assert failed, nothing crashed, main did not return.
Alive == pc \notin {"aborted", "crashed", "exit"}

Permutations3 ==
    {s \in [1 .. 3 -> TestFuncs] : \A a, b \in 1 .. 3 : a # b => s[a] # s[b]}

Init ==
    /\ tests \in Permutations3               \* std::shuffle(tests, tests + 3, rng)
    /\ func = 1
    /\ pc = "main"
    /\ i = 0
    /\ index = 0
    /\ target = 0
    /\ queue = << >>
    /\ iterations \in 0 .. MaxIterations
    /\ capacity \in 1 .. MaxCapacity
    /\ inited = [w \in Workers |-> "none"]
    /\ init_failed = FALSE
    /\ wpc = [w \in Workers |-> "none"]
    /\ done = [w \in Workers |-> FALSE]
    /\ sem = [w \in Workers |-> 0]
    /\ pending = [w \in Workers |-> FALSE]
    /\ calls = [w \in Workers |-> 0]
    /\ posts = [w \in Workers |-> 0]
    /\ async_pending = [w \in Workers |-> FALSE]
    /\ handle = [w \in Workers |-> "none"]
    /\ histogram = [w \in Workers |-> BaseWorker]
    /\ dequeued = [w \in Workers |-> << >>]
    /\ dumps = [w \in Workers |-> 0]
    /\ out = << >>
    /\ produced = << >>
    /\ sends = << >>


(***************************************************************************)
(* The shared queue (mpmc_queue.hpp): a bounded FIFO whose enqueue and     *)
(* dequeue never block and report success or failure.                      *)
(***************************************************************************)
enqueue(q, value) ==
    IF Len(q) < capacity
    THEN [ok |-> TRUE, queue |-> Append(q, value)]
    ELSE [ok |-> FALSE, queue |-> q]

dequeue(q) ==
    IF q = << >>
    THEN [ok |-> FALSE, value |-> 0, queue |-> q]
    ELSE [ok |-> TRUE, value |-> Head(q), queue |-> Tail(q)]

(***************************************************************************)
(* main and the run_<strategy>_test functions.                             *)
(***************************************************************************)

\* for (func = tests; *func != NULL; func++) (*func)();  the test function
\* allocates NUM_THREADS new workers and calls run_test.
main_call ==
    /\ pc = "main"
    /\ func <= 3
    /\ pc' = "init"
    /\ i' = 0
    /\ inited' = [w \in Workers |-> "none"]
    /\ wpc' = [w \in Workers |-> "none"]
    /\ done' = [w \in Workers |-> FALSE]
    /\ sem' = [w \in Workers |-> 0]
    /\ pending' = [w \in Workers |-> FALSE]
    /\ calls' = [w \in Workers |-> 0]
    /\ posts' = [w \in Workers |-> 0]
    /\ async_pending' = [w \in Workers |-> FALSE]
    /\ handle' = [w \in Workers |-> "none"]
    /\ histogram' = [w \in Workers |-> BaseWorker]
    /\ dequeued' = [w \in Workers |-> << >>]
    /\ dumps' = [w \in Workers |-> 0]
    /\ produced' = << >>
    /\ sends' = << >>
    /\ UNCHANGED <<config, func, index, target, queue, init_failed, out>>

\* *func == NULL: main returns.
main_return ==
    /\ pc = "main"
    /\ func > 3
    /\ pc' = "exit"
    /\ UNCHANGED <<config, func, i, index, target, queue, inited, init_failed,
                   wstate, semvars, loopvars, out, history>>

(***************************************************************************)
(* init().  Each variant initialises its resources in order and returns at *)
(* the first failure; the thread starts only when everything before it     *)
(* succeeded.  The result names the step that failed.                      *)
(***************************************************************************)
InitResults(strategy) ==
    CASE strategy = "sema" -> {"ok", "sem", "thread"}
      [] strategy = "busy" -> {"ok", "thread"}
      [] strategy = "loop" -> {"ok", "loop", "async", "thread"}

\* uv_thread_create succeeded: the thread is in run(), at its first access
\* to shared state.
run(strategy) ==
    CASE strategy = "sema" -> "sem_wait"
      [] strategy = "busy" -> "dequeue"
      [] strategy = "loop" -> "uv_run"

\* The first statement of the loop that follows the init loop.
FirstLoop == IF iterations > 0 THEN "enqueue" ELSE "printf"

\* for (i = 0; i < NUM_THREADS; ++i) workers[i]->init();  then index = 0.
run_test_init ==
    /\ pc = "init"
    /\ \E rc \in InitResults(Strategy) :
        /\ inited' = [inited EXCEPT ![i] = rc]
        /\ init_failed' = (init_failed \/ rc # "ok")
        /\ wpc' = [wpc EXCEPT ![i] = IF rc = "ok" THEN run(Strategy) ELSE @]
        /\ handle' = [handle EXCEPT ![i] =
                        IF Strategy = "loop" /\ rc \in {"ok", "thread"}
                        THEN "active" ELSE @]
    /\ IF i + 1 < NUM_THREADS
       THEN /\ i' = i + 1
            /\ UNCHANGED <<pc, index>>
       ELSE /\ i' = 0
            /\ index' = 0
            /\ pc' = FirstLoop
    /\ UNCHANGED <<config, func, target, queue, done, histogram, dequeued, dumps,
                   semvars, async_pending, out, history>>

\* A dispatch that notifies the first worker every time.
SendTarget_first(idx) == 0

\* workers[index++ % NUM_THREADS]
SendTarget(idx) == idx % NUM_THREADS

\* The same with the assertion compiled out: a rejected token is dropped
\* and the loop goes on.
EnqueueAndCall_noassert(value) ==
    LET r == enqueue(queue, value) IN
    /\ queue' = r.queue
    /\ produced' = IF r.ok THEN Append(produced, value) ELSE produced
    /\ target' = SendTarget(index)
    /\ index' = index + 1
    /\ sends' = Append(sends, SendTarget(index))
    /\ pc' = "send"

\* if (!queue.enqueue(value)) assert(false && "Unable to queue");
\* workers[index++ % NUM_THREADS]->send();   up to the call of send().
EnqueueAndCall(value) ==
    LET r == enqueue(queue, value) IN
    IF r.ok
    THEN /\ queue' = r.queue
         /\ produced' = Append(produced, value)
         /\ target' = SendTarget(index)
         /\ index' = index + 1
         /\ sends' = Append(sends, SendTarget(index))
         /\ pc' = "send"
    ELSE /\ pc' = "aborted"
         /\ UNCHANGED <<queue, produced, target, index, sends>>

\* The token of iteration n: uv_hrtime() at its enqueue.  The n-th reading
\* of the clock stands for itself.
Token(n) == n

\* for (i = 0; i < NUM_ITERATIONS; ++i) { enqueue(uv_hrtime()); send }
run_test_enqueue ==
    /\ pc = "enqueue"
    /\ EnqueueAndCall(Token(i))
    /\ UNCHANGED <<config, func, i, inited, init_failed, wstate, semvars,
                   loopvars, out>>

\* for (i = 0; i < NUM_THREADS; ++i) { enqueue((uint64_t)-1); send }
run_test_enqueue_sentinel ==
    /\ pc = "enqueue_sentinel"
    /\ EnqueueAndCall(SENTINEL)
    /\ UNCHANGED <<config, func, i, inited, init_failed, wstate, semvars,
                   loopvars, out>>

\* A sentinel loop that runs once too often (i <= NUM_THREADS).
SendReturns_extra ==
    IF index <= iterations
    THEN /\ i' = i + 1
         /\ pc' = IF i + 1 < iterations THEN "enqueue" ELSE "printf"
    ELSE IF i + 1 <= NUM_THREADS
         THEN /\ i' = i + 1
              /\ pc' = "enqueue_sentinel"
         ELSE /\ i' = 0
              /\ pc' = "join"

\* send() returned: ++i and the loop test of the loop it was called from.
\* index <= iterations holds exactly while the first loop runs.
SendReturns ==
    IF index <= iterations
    THEN /\ i' = i + 1
         /\ pc' = IF i + 1 < iterations THEN "enqueue" ELSE "printf"
    ELSE IF i + 1 < NUM_THREADS
         THEN /\ i' = i + 1
              /\ pc' = "enqueue_sentinel"
         ELSE /\ i' = 0
              /\ pc' = "join"

\* printf("Test \"%s\": Elapsed: ... Rate: ... queues/second\n", name, ...)
ThroughputLine(name) == <<"Test", name>>

run_test_printf ==
    /\ pc = "printf"
    /\ out' = Append(out, ThroughputLine(Strategy))
    /\ pc' = "enqueue_sentinel"
    /\ i' = 0
    /\ UNCHANGED <<config, func, index, target, queue, inited, init_failed,
                   wstate, semvars, loopvars, history>>

(***************************************************************************)
(* send(), executed by the main thread on workers[target].                 *)
(*                                                                         *)
(* A call on a resource whose initialisation failed is undefined: it       *)
(* either has no effect or brings the process down.                        *)
(***************************************************************************)
Undefined == {"nothing", "crash"}

\* SemWorker::send without USE_PENDING: uv_sem_post(&sem) on every call.
SemWorker_send_unconditional ==
    /\ pc = "send"
    /\ Strategy = "sema"
    /\ pc' = "send_post"
    /\ UNCHANGED <<i>>

\* queue.memory_fence(); if (pending.load(relaxed)) return;
SemWorker_send_load ==
    /\ pc = "send"
    /\ Strategy = "sema"
    /\ IF pending[target]
       THEN SendReturns
       ELSE /\ pc' = "send_cas"
            /\ UNCHANGED <<i>>

SemWorker_send ==
    /\ SemWorker_send_load
    /\ calls' = [calls EXCEPT ![target] = @ + 1]
    /\ UNCHANGED <<config, func, index, target, queue, inited, init_failed,
                   wstate, sem, pending, posts, loopvars, out, history>>

\* bool was_pending = false; if (pending.compare_exchange_strong(was_pending, true))
SemWorker_send_cas ==
    /\ pc = "send_cas"
    /\ IF pending[target] = FALSE
       THEN /\ pending' = [pending EXCEPT ![target] = TRUE]
            /\ pc' = "send_post"
            /\ UNCHANGED <<i>>
       ELSE /\ SendReturns
            /\ UNCHANGED <<pending>>
    /\ UNCHANGED <<config, func, index, target, queue, inited, init_failed,
                   wstate, sem, calls, posts, loopvars, out, history>>

\* A send() that wins the exchange and returns without uv_sem_post.
SemWorker_send_post_lost ==
    /\ pc = "send_post"
    /\ SendReturns
    /\ UNCHANGED <<config, func, index, target, queue, inited, init_failed,
                   wstate, semvars, loopvars, out, history>>

\* A send() that resets the flag itself once it has posted.
SemWorker_send_post_clears ==
    /\ pc = "send_post"
    /\ sem' = [sem EXCEPT ![target] = @ + 1]
    /\ posts' = [posts EXCEPT ![target] = @ + 1]
    /\ pending' = [pending EXCEPT ![target] = FALSE]
    /\ SendReturns
    /\ UNCHANGED <<config, func, index, target, queue, inited, init_failed,
                   wstate, calls, loopvars, out, history>>

\* uv_sem_post(&sem);
SemWorker_send_post ==
    /\ pc = "send_post"
    /\ IF inited[target] = "sem"
       THEN \E outcome \in Undefined :
               /\ IF outcome = "crash"
                  THEN pc' = "crashed" /\ UNCHANGED <<i>>
                  ELSE SendReturns
               /\ UNCHANGED <<sem, posts>>
       ELSE /\ sem' = [sem EXCEPT ![target] = @ + 1]
            /\ posts' = [posts EXCEPT ![target] = @ + 1]
            /\ SendReturns
    /\ UNCHANGED <<config, func, index, target, queue, inited, init_failed,
                   wstate, pending, calls, loopvars, out, history>>

\* void send() { }
BusyWorker_send ==
    /\ pc = "send"
    /\ Strategy = "busy"
    /\ SendReturns
    /\ UNCHANGED <<config, func, index, target, queue, inited, init_failed,
                   wstate, semvars, loopvars, out, history>>

\* queue.memory_fence(); uv_async_send(&async);  on a closed handle the
\* wake-up is set and no callback follows.
LoopWorker_send ==
    /\ pc = "send"
    /\ Strategy = "loop"
    /\ IF inited[target] \in {"loop", "async"}
       THEN \E outcome \in Undefined :
               /\ IF outcome = "crash"
                  THEN pc' = "crashed" /\ UNCHANGED <<i>>
                  ELSE SendReturns
               /\ UNCHANGED <<async_pending>>
       ELSE /\ async_pending' = [async_pending EXCEPT ![target] = TRUE]
            /\ SendReturns
    /\ UNCHANGED <<config, func, index, target, queue, inited, init_failed,
                   wstate, semvars, handle, out, history>>

(***************************************************************************)
(* join(): uv_thread_join, then the variant's uv_sem_destroy or            *)
(* uv_loop_close.  Joining a thread that was never created is undefined.   *)
(* After the last join run_test and the test function return to main,      *)
(* which advances func.                                                    *)
(***************************************************************************)
JoinReturns ==
    IF i + 1 < NUM_THREADS
    THEN /\ i' = i + 1
         /\ UNCHANGED <<pc, func>>
    ELSE /\ i' = 0
         /\ pc' = "main"
         /\ func' = func + 1

\* A join that does not wait for the thread.
ThreadFinished_nowait(w) == TRUE

\* The thread uv_thread_join waits for has returned from run().
ThreadFinished(w) == wpc[w] = "terminated"

run_test_join ==
    /\ pc = "join"
    /\ IF inited[i] = "ok"
       THEN /\ ThreadFinished(i)
            /\ wpc' = [wpc EXCEPT ![i] = "joined"]
            /\ JoinReturns
       ELSE \E outcome \in Undefined :
               /\ IF outcome = "crash"
                  THEN pc' = "crashed" /\ UNCHANGED <<i, func>>
                  ELSE JoinReturns
               /\ UNCHANGED <<wpc>>
    /\ UNCHANGED <<config, index, target, queue, inited, init_failed, done,
                   histogram, dequeued, dumps, semvars, loopvars, out, history>>

(***************************************************************************)
(* The consumer threads.                                                   *)
(***************************************************************************)

\* A record() that loses the sample.
record_lost(h, value) == h

\* BaseWorker::record: hdr_record_value(histogram, value).  The sample of a
\* token is written as the token itself (its latency is now - token).
record(h, value) == [h EXCEPT !.values = Append(@, value)]

\* if (value == (uint64_t)-1)
IsSentinel(value) == value = SENTINEL

\* The loop without its break: a sentinel sets done and the loop goes on
\* until dequeue fails.
Drain_nobreak(w, onEmpty, onDone) ==
    LET r == dequeue(queue) IN
    IF ~r.ok
    THEN /\ wpc' = [wpc EXCEPT ![w] = IF done[w] THEN onDone ELSE onEmpty]
         /\ UNCHANGED <<queue, done, histogram, dequeued>>
    ELSE /\ queue' = r.queue
         /\ dequeued' = [dequeued EXCEPT ![w] = Append(@, r.value)]
         /\ IF IsSentinel(r.value)
            THEN /\ done' = [done EXCEPT ![w] = TRUE]
                 /\ UNCHANGED <<histogram, wpc>>
            ELSE /\ histogram' = [histogram EXCEPT ![w] = record(@, r.value)]
                 /\ UNCHANGED <<done, wpc>>

\* One turn of  while (queue.dequeue(value)) { if (sentinel) { done = true;
\* break; } else record(uv_hrtime() - value); }  by worker w; the loop is
\* left to onEmpty when dequeue fails and to onDone after a sentinel.
Drain(w, onEmpty, onDone) ==
    LET r == dequeue(queue) IN
    IF ~r.ok
    THEN /\ wpc' = [wpc EXCEPT ![w] = onEmpty]
         /\ UNCHANGED <<queue, done, histogram, dequeued>>
    ELSE /\ queue' = r.queue
         /\ dequeued' = [dequeued EXCEPT ![w] = Append(@, r.value)]
         /\ IF IsSentinel(r.value)
            THEN /\ done' = [done EXCEPT ![w] = TRUE]
                 /\ wpc' = [wpc EXCEPT ![w] = onDone]
                 /\ UNCHANGED <<histogram>>
            ELSE /\ histogram' = [histogram EXCEPT ![w] = record(@, r.value)]
                 /\ UNCHANGED <<done, wpc>>

\* BaseWorker::dump: the printf of the percentile report.
StatsLine == <<"final stats">>

\* A dump() that writes its report on two lines.
dump_twice(w, next) ==
    /\ out' = Append(Append(out, StatsLine), StatsLine)
    /\ dumps' = [dumps EXCEPT ![w] = @ + 1]
    /\ wpc' = [wpc EXCEPT ![w] = next]

dump(w, next) ==
    /\ out' = Append(out, StatsLine)
    /\ dumps' = [dumps EXCEPT ![w] = @ + 1]
    /\ wpc' = [wpc EXCEPT ![w] = next]

\* uv_sem_wait(&sem);
SemWorker_wait(w) ==
    /\ Alive
    /\ wpc[w] = "sem_wait"
    /\ sem[w] > 0
    /\ sem' = [sem EXCEPT ![w] = @ - 1]
    /\ wpc' = [wpc EXCEPT ![w] = "sem_cas"]
    /\ UNCHANGED <<config, driver, queue, inited, init_failed, done, histogram,
                   dequeued, dumps, pending, calls, posts, loopvars, out,
                   history>>

\* SemWorker::run without USE_PENDING: the drain follows uv_sem_wait at once.
SemWorker_cas_skipped(w) ==
    /\ Alive
    /\ wpc[w] = "sem_cas"
    /\ wpc' = [wpc EXCEPT ![w] = "dequeue"]
    /\ UNCHANGED <<config, driver, queue, inited, init_failed, done, histogram,
                   dequeued, dumps, semvars, loopvars, out, history>>

\* bool was_pending = true;
\* if (!pending.compare_exchange_strong(was_pending, false)) continue;
SemWorker_cas(w) ==
    /\ Alive
    /\ wpc[w] = "sem_cas"
    /\ IF pending[w]
       THEN /\ pending' = [pending EXCEPT ![w] = FALSE]
            /\ calls' = [calls EXCEPT ![w] = 0]
            /\ posts' = [posts EXCEPT ![w] = 0]
            /\ wpc' = [wpc EXCEPT ![w] = "dequeue"]
       ELSE /\ wpc' = [wpc EXCEPT ![w] = "sem_wait"]
            /\ UNCHANGED <<pending, calls, posts>>
    /\ UNCHANGED <<config, driver, queue, inited, init_failed, done, histogram,
                   dequeued, dumps, sem, loopvars, out, history>>

\* SemWorker::run, the inner while loop.
SemWorker_dequeue(w) ==
    /\ Alive
    /\ Strategy = "sema"
    /\ wpc[w] = "dequeue"
    /\ Drain(w, "sem_wait", "dump")
    /\ UNCHANGED <<config, driver, inited, init_failed, dumps, semvars, loopvars,
                   out, history>>

\* A BusyWorker that suspends on an empty queue, waiting for a wake-up its
\* send() never gives.
BusyWorker_dequeue_suspends(w) ==
    /\ Alive
    /\ Strategy = "busy"
    /\ wpc[w] = "dequeue"
    /\ Drain(w, "sem_wait", "dump")
    /\ UNCHANGED <<config, driver, inited, init_failed, dumps, semvars, loopvars,
                   out, history>>

\* BusyWorker::run, the inner while loop inside while (!done).
BusyWorker_dequeue(w) ==
    /\ Alive
    /\ Strategy = "busy"
    /\ wpc[w] = "dequeue"
    /\ Drain(w, "dequeue", "dump")
    /\ UNCHANGED <<config, driver, inited, init_failed, dumps, semvars, loopvars,
                   out, history>>

\* dump(); at the end of SemWorker::run and BusyWorker::run: the thread ends.
ThreadWorker_dump(w) ==
    /\ Alive
    /\ Strategy \in {"sema", "busy"}
    /\ wpc[w] = "dump"
    /\ dump(w, "terminated")
    /\ UNCHANGED <<config, driver, queue, inited, init_failed, done, histogram,
                   dequeued, semvars, loopvars, history>>

\* A loop that still delivers the wake-up of a closed handle.
LoopWorker_run_closed(w) ==
    /\ Alive
    /\ wpc[w] = "uv_run"
    /\ async_pending[w]
    /\ async_pending' = [async_pending EXCEPT ![w] = FALSE]
    /\ wpc' = [wpc EXCEPT ![w] = "on_async"]
    /\ UNCHANGED <<config, driver, queue, inited, init_failed, done, histogram,
                   dequeued, dumps, semvars, handle, out, history>>

\* uv_run(&loop, UV_RUN_DEFAULT) finds the wake-up of its open async handle
\* set, clears it and calls on_async.
LoopWorker_run(w) ==
    /\ Alive
    /\ wpc[w] = "uv_run"
    /\ handle[w] = "active"
    /\ async_pending[w]
    /\ async_pending' = [async_pending EXCEPT ![w] = FALSE]
    /\ wpc' = [wpc EXCEPT ![w] = "on_async"]
    /\ UNCHANGED <<config, driver, queue, inited, init_failed, done, histogram,
                   dequeued, dumps, semvars, handle, out, history>>

\* LoopWorker::on_async, the while loop; without a sentinel the callback
\* returns to uv_run.
LoopWorker_on_async(w) ==
    /\ Alive
    /\ wpc[w] = "on_async"
    /\ Drain(w, "uv_run", "dump")
    /\ UNCHANGED <<config, driver, inited, init_failed, dumps, semvars, loopvars,
                   out, history>>

\* if (done) { worker->dump();
LoopWorker_dump(w) ==
    /\ Alive
    /\ Strategy = "loop"
    /\ wpc[w] = "dump"
    /\ dump(w, "uv_close")
    /\ UNCHANGED <<config, driver, queue, inited, init_failed, done, histogram,
                   dequeued, semvars, loopvars, history>>

\* uv_close((uv_handle_t*)handle, NULL); }  and the callback returns.
LoopWorker_close(w) ==
    /\ Alive
    /\ wpc[w] = "uv_close"
    /\ handle' = [handle EXCEPT ![w] = "closed"]
    /\ wpc' = [wpc EXCEPT ![w] = "uv_run"]
    /\ UNCHANGED <<config, driver, queue, inited, init_failed, done, histogram,
                   dequeued, dumps, semvars, async_pending, out, history>>

\* uv_run returns when the loop has no open handle left: the thread ends.
LoopWorker_exit(w) ==
    /\ Alive
    /\ wpc[w] = "uv_run"
    /\ handle[w] = "closed"
    /\ wpc' = [wpc EXCEPT ![w] = "terminated"]
    /\ UNCHANGED <<config, driver, queue, inited, init_failed, done, histogram,
                   dequeued, dumps, semvars, loopvars, out, history>>

(***************************************************************************)
(* The specification.                                                      *)
(***************************************************************************)
Main ==
    \/ main_call
    \/ main_return
    \/ run_test_init
    \/ run_test_enqueue
    \/ SemWorker_send
    \/ SemWorker_send_cas
    \/ SemWorker_send_post
    \/ BusyWorker_send
    \/ LoopWorker_send
    \/ run_test_printf
    \/ run_test_enqueue_sentinel
    \/ run_test_join

Thread(w) ==
    \/ SemWorker_wait(w)
    \/ SemWorker_cas(w)
    \/ SemWorker_dequeue(w)
    \/ BusyWorker_dequeue(w)
    \/ ThreadWorker_dump(w)
    \/ LoopWorker_run(w)
    \/ LoopWorker_on_async(w)
    \/ LoopWorker_dump(w)
    \/ LoopWorker_close(w)
    \/ LoopWorker_exit(w)

Next == Main \/ \E w \in Workers : Thread(w)

Spec == Init /\ [][Next]_vars

\* Every thread that can take a step eventually takes one.
FairSpec == Spec /\ WF_vars(Main) /\ \A w \in Workers : WF_vars(Thread(w))

(***************************************************************************)
(* Properties.                                                             *)
(***************************************************************************)

\* Number of positions of seq that hold v.
Count(seq, v) == Cardinality({k \in 1 .. Len(seq) : seq[k] = v})

\* Number of record() calls made by the workers of S in the current run.
RECURSIVE Recorded(_)
Recorded(S) ==
    IF S = {} THEN 0
    ELSE LET w == CHOOSE x \in S : TRUE
         IN  Len(histogram[w].values) + Recorded(S \ {w})

\* run_test has just returned to main: join() returned for every worker.
RunReturned == pc = "main" /\ func > 1

\* The test function whose run_test returned last.
Returned == tests[func - 1]

\* C1: when join() has returned for all workers of a run whose init() calls
\* all succeeded, the workers made exactly NUM_ITERATIONS record() calls in
\* total: every data token was recorded by exactly one worker, exactly once,
\* and no sentinel was recorded.
C1_NoLossNoDoubleCount ==
    (RunReturned /\ ~init_failed) =>
        /\ Recorded(Workers) = iterations
        /\ \A n \in 0 .. (iterations - 1) :
              Cardinality({w \in Workers :
                             Count(histogram[w].values, Token(n)) = 1}) = 1
        /\ \A w \in Workers : Count(histogram[w].values, SENTINEL) = 0

\* A semaphore run has returned in which two workers each recorded a token.
C1_Witness ==
    /\ RunReturned /\ ~init_failed
    /\ Returned = "sema"
    /\ iterations >= 2
    /\ \E v, w \in Workers :
          v # w /\ histogram[v].values # << >> /\ histogram[w].values # << >>

\* C2: under fair scheduling of the producer and of every consumer thread,
\* once run_test has enqueued its NUM_THREADS sentinels and issued their
\* send() calls (it is at the join loop) after successful init() calls,
\* every worker terminates and run_test returns to main.
C2_Termination == (pc = "join" /\ ~init_failed) ~> (pc = "main")

\* C3: between two consecutive clears of a SemWorker's pending flag by its
\* consumer (or since its construction) the send() calls on it post its
\* semaphore at most once, and a post was made only with the flag set.
C3_Coalescing ==
    \A w \in Workers : posts[w] <= 1 /\ (posts[w] = 1 => pending[w])

\* Two send() calls on one SemWorker since its flag was last cleared, the
\* second of which has returned, and a single post.
C3_Witness ==
    /\ Strategy = "sema"
    /\ pc \in {"enqueue", "enqueue_sentinel", "printf", "join"}
    /\ \E w \in Workers : calls[w] >= 2 /\ posts[w] = 1

\* Some init() of the current run returned a failure.
InitFailedNow == \E w \in Workers : inited[w] \notin {"none", "ok"}

\* C4: once an init() of a run has reported a failure, run_test enqueues no
\* token, calls no send() and prints no throughput line, and it does not
\* call init() again on the worker that failed.
C4_InitFailureAborts ==
    InitFailedNow =>
        /\ produced = << >>
        /\ sends = << >>
        /\ Count(out, ThroughputLine(Strategy)) = 0

\* No throughput line has been written.
NoThroughputLine == \A k \in 1 .. Len(out) : out[k][1] # "Test"

\* Number of tokens the workers of S dequeued in the current run.
RECURSIVE Dequeued(_)
Dequeued(S) ==
    IF S = {} THEN 0
    ELSE LET w == CHOOSE x \in S : TRUE
         IN  Len(dequeued[w]) + Dequeued(S \ {w})

C6_OutputShape ==
    (RunReturned /\ ~init_failed) =>
        /\ Len(out) = (func - 1) * (NUM_THREADS + 1)
        /\ \A k \in 1 .. (func - 1) :
              /\ out[(k - 1) * (NUM_THREADS + 1) + 1] = ThroughputLine(tests[k])
              /\ \A j \in 2 .. (NUM_THREADS + 1) :
                    out[(k - 1) * (NUM_THREADS + 1) + j] = StatsLine
        /\ \A w \in Workers : dumps[w] = 1

\* All three strategies have completed.
C6_Witness == RunReturned /\ ~init_failed /\ func = 4

\* C7: the k-th send() of the first loop follows the enqueue of the k-th
\* data token and is addressed to worker (k - 1) mod NUM_THREADS; while a
\* send() runs its token has been enqueued.
C7_RoundRobin ==
    /\ Len(sends) = Len(produced)
    /\ \A k \in 1 .. Len(sends) :
          k <= iterations =>
             sends[k] = (k - 1) % NUM_THREADS /\ produced[k] = Token(k - 1)
    /\ pc \in {"send", "send_cas", "send_post"} =>
          /\ Len(produced) = index
          /\ target = sends[index]
          /\ index <= iterations => (i = index - 1 /\ target = i % NUM_THREADS)

\* A data token was recorded by a worker other than the one notified for it.
C7_Witness ==
    \E k \in 1 .. Len(sends) : \E w \in Workers :
        /\ k <= iterations
        /\ w # sends[k]
        /\ Count(histogram[w].values, Token(k - 1)) = 1

\* C8: the tokens of a run are its data tokens followed by sentinels, at
\* most NUM_THREADS of them; every send() continues one round-robin index;
\* and once the sentinel loop is over exactly NUM_THREADS sentinels were
\* enqueued and every worker was the target of exactly one of their sends.
C8_Sentinels ==
    /\ \A k \in 1 .. Len(produced) : (produced[k] = SENTINEL) <=> (k > iterations)
    /\ Len(produced) <= iterations + NUM_THREADS
    /\ \A k \in 1 .. Len(sends) : sends[k] = (k - 1) % NUM_THREADS
    /\ (pc = "join" \/ RunReturned) =>
          /\ Len(produced) = iterations + NUM_THREADS
          /\ Len(sends) = iterations + NUM_THREADS
          /\ \A w \in Workers :
                Cardinality({k \in (iterations + 1) .. (iterations + NUM_THREADS) :
                               sends[k] = w}) = 1

\* The sentinel loop is over in a run with an iteration count that is not a
\* multiple of the number of workers.
C8_Witness ==
    pc = "join" /\ iterations % NUM_THREADS # 0 /\ Count(produced, SENTINEL) = NUM_THREADS

\* C9: a worker's thread has ended only after the worker dequeued a
\* sentinel as its last token and completed dump(); join() has returned
\* only for such a worker, and only after all NUM_THREADS sentinels were
\* enqueued.
C9_Lifecycle ==
    \A w \in Workers :
        /\ wpc[w] \in {"terminated", "joined"} =>
              /\ done[w]
              /\ dumps[w] = 1
              /\ dequeued[w] # << >>
              /\ dequeued[w][Len(dequeued[w])] = SENTINEL
              /\ Count(dequeued[w], SENTINEL) = 1
        /\ wpc[w] = "joined" => Count(produced, SENTINEL) = NUM_THREADS
        /\ (pc = "join" /\ w < i /\ inited[w] = "ok") => wpc[w] = "joined"

\* An event-loop worker has been joined while run_test is in its join loop.
C9_Witness ==
    pc = "join" /\ Strategy = "loop" /\ \E w \in Workers : wpc[w] = "joined"

\* The number of nanoseconds in one hour: 3600 s * 10^9.
NanosPerHour == Mul(Dec(3600), Mul(Dec(1000), Mul(Dec(1000), Dec(1000))))

\* C10: every worker's histogram covers 1 ns to 1 hour (3600 * 10^9 ns)
\* with 3 significant digits.
C10_OneHourRange ==
    \A w \in Workers :
        /\ histogram[w].lowest = Dec(1)
        /\ histogram[w].highest = NanosPerHour
        /\ histogram[w].digits = 3

\* C11: the pending flag of a constructed SemWorker goes from true to false
\* only in a step of that worker's own thread, taken between the return of
\* its uv_sem_wait and the first dequeue of the drain pass that follows; the
\* step changes nothing of the main thread, of the queue or of another
\* worker.
C11_PendingClearedByOwner ==
    [][\A w \in Workers :
          (pc # "main" /\ pending[w] /\ ~pending'[w]) =>
             /\ wpc[w] = "sem_cas"
             /\ wpc'[w] = "dequeue"
             /\ UNCHANGED <<driver, queue, dequeued, sem>>
             /\ \A v \in Workers \ {w} :
                   wpc'[v] = wpc[v] /\ pending'[v] = pending[v]]_vars

\* A SemWorker has just cleared its flag and has not dequeued yet in this
\* drain pass, while the queue holds a token.
C11_Witness ==
    /\ Strategy = "sema"
    /\ queue # << >>
    /\ \E w \in Workers :
          wpc[w] = "dequeue" /\ ~pending[w] /\ calls[w] = 0 /\ dequeued[w] = << >>

\* C12: during a semaphore run a worker dequeues only inside a drain pass,
\* a drain pass begins only with that worker's successful true -> false
\* transition of its pending flag, and a worker whose transition fails goes
\* back to uv_sem_wait and changes nothing else.
C12_DrainOnlyAfterClear ==
    [][\A w \in Workers :
          (Strategy = "sema" /\ pc # "main") =>
             /\ dequeued'[w] # dequeued[w] => wpc[w] = "dequeue"
             /\ (wpc'[w] = "dequeue" /\ wpc[w] # "dequeue") =>
                   wpc[w] = "sem_cas" /\ pending[w] /\ ~pending'[w]
             /\ (wpc[w] = "sem_cas" /\ ~pending[w] /\ wpc'[w] # wpc[w]) =>
                   /\ wpc'[w] = "sem_wait"
                   /\ UNCHANGED <<config, driver, queue, inited, init_failed,
                                  done, histogram, dequeued, dumps, semvars,
                                  loopvars, out, history>>]_vars

\* A SemWorker is in a drain pass in which it has dequeued a token.
C12_Witness ==
    /\ Strategy = "sema"
    /\ \E w \in Workers :
          wpc[w] = "dequeue" /\ ~pending[w] /\ dequeued[w] # << >>

\* The worker is inside its dequeue loop.
Draining(w) == wpc[w] \in {"dequeue", "on_async"}

IsData(value) == value # SENTINEL

\* C13: a worker dequeues at most one sentinel, as the last value it ever
\* dequeues, and records exactly the data tokens it dequeued; done is set
\* exactly for the workers that dequeued one; a worker leaves its dequeue
\* loop only on an empty queue (back to waiting) or with a sentinel (to
\* dump); so the workers that stopped number the sentinels dequeued, and
\* when all threads have ended each worker dequeued exactly one.
C13_OneSentinelEach ==
    [][\A w \in Workers :
          /\ Count(dequeued'[w], SENTINEL) <= 1
          /\ Count(dequeued'[w], SENTINEL) = 1 =>
                dequeued'[w][Len(dequeued'[w])] = SENTINEL
          /\ histogram'[w].values = SelectSeq(dequeued'[w], IsData)
          /\ done'[w] <=> Count(dequeued'[w], SENTINEL) = 1
          /\ wpc'[w] \in {"dump", "uv_close", "terminated", "joined"} => done'[w]
          /\ (Draining(w) /\ wpc'[w] # wpc[w]) =>
                \/ queue = << >> /\ queue' = queue /\ dequeued'[w] = dequeued[w]
                                 /\ wpc'[w] \in {"sem_wait", "uv_run"}
                \/ queue # << >> /\ Head(queue) = SENTINEL
                                 /\ dequeued'[w] = Append(dequeued[w], SENTINEL)
                                 /\ wpc'[w] = "dump"]_vars

\* Every worker of a run has ended, each after one sentinel, and some worker
\* recorded a token before its sentinel.
C13_Witness ==
    /\ \A w \in Workers :
          wpc[w] \in {"terminated", "joined"} /\ Count(dequeued[w], SENTINEL) = 1
    /\ \E w \in Workers : Len(dequeued[w]) >= 2

\* C14: for an event-loop worker, on_async records the data tokens it
\* dequeues and returns to the loop with the handle open exactly when it met
\* no sentinel; it has called dump() (once) and closed the wake handle
\* exactly when it dequeued a sentinel; the loop thread ends only with the
\* handle closed; and once the handle is closed the handler never runs
\* again, whatever wake-ups send() leaves on it.
C14_LoopHandler ==
    (Strategy = "loop" /\ pc # "main") =>
        \A w \in Workers :
            /\ histogram[w].values = SelectSeq(dequeued[w], IsData)
            /\ dumps[w] <= 1
            /\ dumps[w] = 1 <=> (done[w] /\ wpc[w] # "dump")
            /\ handle[w] = "closed" <=>
                  (done[w] /\ wpc[w] \notin {"dump", "uv_close"})
            /\ handle[w] = "closed" => wpc[w] \in {"uv_run", "terminated", "joined"}
            /\ wpc[w] \in {"terminated", "joined"} => handle[w] = "closed"
            /\ wpc[w] = "on_async" => (handle[w] = "active" /\ ~done[w])

\* An event-loop worker has ended after recording a token, and a later
\* send() has left a wake-up on its closed handle.
C14_Witness ==
    /\ Strategy = "loop"
    /\ \E w \in Workers :
          /\ wpc[w] = "terminated"
          /\ handle[w] = "closed"
          /\ async_pending[w]
          /\ Len(dequeued[w]) >= 2

\* C15: whenever a SemWorker has returned from uv_sem_wait and is about to
\* execute its compare-exchange, its pending flag is true: the exchange
\* succeeds, the continue is not taken and the assertion on was_pending
\* holds.
C15_ClearNeverFails ==
    \A w \in Workers : wpc[w] = "sem_cas" => pending[w]

\* A SemWorker woken for the second time in a run is at its compare-exchange.
C15_Witness ==
    \E w \in Workers :
        wpc[w] = "sem_cas" /\ pending[w] /\ dequeued[w] # << >>

\* C16: the count of every SemWorker's semaphore is 0 or 1, and it is 1
\* only while the worker's pending flag is true.
C16_SemaphoreBinary ==
    \A w \in Workers : sem[w] \in {0, 1} /\ (sem[w] = 1 => pending[w])

\* A semaphore is posted a second time, by the first send() after its worker
\* cleared the flag and dequeued a token.
C16_Witness ==
    \E w \in Workers :
        sem[w] = 1 /\ pending[w] /\ calls[w] = 1 /\ dequeued[w] # << >>

\* A send() on SemWorker w is between its winning compare-exchange and its
\* uv_sem_post.
Posting(w) == pc = "send_post" /\ target = w

\* The process was ended by abort() or by a fault.
Ended == pc \in {"aborted", "crashed"}

\* A send() on SemWorker w has returned, w's thread is in run() and has
\* dequeued no sentinel, and no drain pass has begun since: the flag is
\* still set and no send() on w is about to post.
Notified(w) ==
    /\ Strategy = "sema"
    /\ wpc[w] # "none"
    /\ ~done[w]
    /\ pending[w]
    /\ ~Posting(w)

\* SemWorker w has just begun a drain pass or is in one begun after the last
\* send() that set its flag.
PassStarted(w) == wpc[w] = "dequeue" /\ ~pending[w]

\* No SemWorker is blocked in uv_sem_wait with count 0 and its flag set
\* unless a send() on it is about to post.
NoLostWakeup ==
    \A w \in Workers :
        (wpc[w] = "sem_wait" /\ sem[w] = 0 /\ pending[w]) => Posting(w)

\* C17 as stated: every send() that returned on a SemWorker that had not
\* dequeued a sentinel is followed by the start of a new drain pass of that
\* worker (while the process runs).
C17_SendStartsPass ==
    \A w \in Workers : Notified(w) ~> (PassStarted(w) \/ Ended)

\* C17 as amended: no wake-up is lost, and every send() that returned on a
\* running SemWorker that had not dequeued a sentinel is followed, while the
\* process runs, by a dequeue of that worker made after the send(): the
\* first of a new drain pass, or the one of the pass in progress that takes
\* a sentinel and ends the worker.
C17_NoLostWakeup ==
    /\ []NoLostWakeup
    /\ \A w \in Workers : Notified(w) ~> (PassStarted(w) \/ done[w] \/ Ended)

\* A SemWorker took a sentinel in the pass that was in progress when a
\* send() set its flag again: it ended with the flag set and the
\* semaphore posted.
C17_Witness ==
    \E w \in Workers :
        wpc[w] = "terminated" /\ done[w] /\ pending[w] /\ sem[w] = 1

\* Data token n of the current run was enqueued after successful init()
\* calls.
Enqueued(n) == pc # "main" /\ ~init_failed /\ Count(produced, Token(n)) = 1

\* Data token n was dequeued and recorded by a worker.
DequeuedAndRecorded(n) ==
    \E w \in Workers :
        Count(dequeued[w], Token(n)) = 1 /\ Count(histogram[w].values, Token(n)) = 1

\* A sentinel is dequeued only when every data token of the run has been
\* dequeued and recorded.
DataBeforeSentinels ==
    (~init_failed /\ \E w \in Workers : Count(dequeued[w], SENTINEL) > 0) =>
        \A n \in 0 .. (iterations - 1) : DequeuedAndRecorded(n)

\* C18 as stated: under fair scheduling every data token run_test enqueued
\* is eventually dequeued and recorded, in every execution.
C18_EveryTokenRecorded ==
    \A n \in 0 .. (MaxIterations - 1) : Enqueued(n) ~> DequeuedAndRecorded(n)

\* C18 as amended: under fair scheduling every data token run_test enqueued
\* is eventually dequeued and recorded unless run_test aborts at an enqueue
\* on a full queue, and no sentinel is dequeued before every data token was;
\* also when a worker waits for ever and the run never completes.
C18_DataTokensRecorded ==
    /\ []DataBeforeSentinels
    /\ \A n \in 0 .. (MaxIterations - 1) :
          Enqueued(n) ~> (DequeuedAndRecorded(n) \/ pc = "aborted")

\* A run that never completes: a worker waits with a sentinel left in the
\* queue and nothing to wake it, and every data token was recorded.
C18_Witness ==
    /\ pc = "join"
    /\ ~init_failed
    /\ iterations = MaxIterations
    /\ queue = <<SENTINEL>>
    /\ \E w \in Workers :
          \/ wpc[w] = "sem_wait" /\ sem[w] = 0 /\ ~pending[w]
          \/ wpc[w] = "uv_run" /\ handle[w] = "active" /\ ~async_pending[w]
    /\ \A n \in 0 .. (iterations - 1) : DequeuedAndRecorded(n)

\* C19: when run_test returns after successful init() calls the shared
\* queue is empty and the workers of the run have dequeued its
\* NUM_ITERATIONS data tokens and NUM_THREADS sentinels; and at any time
\* the tokens in the queue and those the current workers dequeued are the
\* tokens of the current run, so no run consumes a token of an earlier one.
C19_QueueEmptyAtReturn ==
    ~init_failed =>
        /\ Len(queue) + Dequeued(Workers) = Len(produced)
        /\ RunReturned =>
              /\ queue = << >>
              /\ Dequeued(Workers) = iterations + NUM_THREADS
              /\ \A n \in 0 .. (iterations - 1) :
                    \E w \in Workers : Count(dequeued[w], Token(n)) = 1
              /\ \A w \in Workers : Count(dequeued[w], SENTINEL) = 1
        /\ pc = "init" => queue = << >>

\* The second strategy's run_test has returned; both runs had data tokens.
C19_Witness ==
    /\ RunReturned
    /\ ~init_failed
    /\ func = 3
    /\ iterations = MaxIterations
    /\ queue = << >>
    /\ Dequeued(Workers) = iterations + NUM_THREADS

\* C20: in the busy-poll strategy, under weak fairness of the producer and
\* of every consumer thread, once run_test has enqueued the NUM_THREADS
\* sentinels after successful init() calls (it is at the join loop) every
\* BusyWorker's thread ends, join() returns for each and run_test returns.
C20_BusyPollTerminates ==
    (Strategy = "busy" /\ pc = "join" /\ ~init_failed) ~>
        (pc = "main" /\ \A w \in Workers : wpc[w] = "joined")

\* The sentinels are enqueued; one BusyWorker has ended after taking data
\* tokens and a sentinel while another is still polling, with a sentinel
\* left in the queue.
C20_Witness ==
    /\ Strategy = "busy"
    /\ pc = "join"
    /\ ~init_failed
    /\ queue = <<SENTINEL>>
    /\ \E w \in Workers :
          wpc[w] = "terminated" /\ Len(dequeued[w]) >= 2
    /\ \E w \in Workers : wpc[w] = "dequeue" /\ dequeued[w] = << >>

====
